---- MODULE Spec2Model ----
(***************************************************************************)
(* A model of the gs-mock dispatch engine (package gsmock): the Manager    *)
(* registry, the generated MockerNN/InvokerNN records, context binding and *)
(* Invoke / InvokeContext.                                                 *)
(***************************************************************************)
EXTENDS Integers, Sequences, FiniteSets, TLC

\* ------------------------------------------------------------------ bounds
MaxRecs == 3      \* NewMockerNN calls
MaxCtx  == 2      \* contexts derived from context.Background()
MaxOps  == 6      \* configuration calls made by a test
MaxConcOps == 4   \* configuration calls made while goroutines run

\* ------------------------------------------------------- program constants
ModeHandle     == 0
ModeWhenReturn == 1

\* --------------------------------------------------------------- universes
Mgrs    == {1, 2, 3}                \* Managers created by NewManager
NilMgr  == 0                       \* (*Manager)(nil)
Args    == {0, 1}                  \* req.Value of a call
\* mockerKey{typ, method}
mockerKey == {<<"Client", "Get">>, <<"MockClient", "Query">>}
\* instances of the generated interface mock MockClient; NewMockClient(r)
\* stores the Manager in the instance
Receivers == {"s1", "s2"}
RecvType(s) == "MockClient"
RecvMgr(s)  == 1

NilFn     == "nil"
HandleFns == {"h1"}              \* user handler functions
ReturnFns == {"r1"}              \* user return producers
ZeroFn    == "r0"                  \* the producer ReturnDefault installs
\* user predicates: req.Value == v, and the constant-true predicate
NilPred   == <<"nil", 0>>
TruePred  == <<"true", 0>>
EqPred(v) == <<"eq", v>>
WhenFns   == {EqPred(v) : v \in Args} \cup {TruePred}

\* results are boxed values: who produced them and from which argument
NilRet          == [by |-> "none", arg |-> -1]
CallReturnFn(r) == [by |-> r, arg |-> -1]
CallHandleFn(h, a) == [by |-> h, arg |-> a]
CallWhenFn(p, a) == IF p[1] = "true" THEN TRUE ELSE p[2] = a

\* goroutines started by the test, and the Manager each one creates for
\* itself; Manager 1 is created by the test and shared
Threads == {"g1", "g2"}
Own(t)  == IF t = "g1" THEN 2 ELSE 3

VARIABLES
    testing,    \* testing.Testing()
    mockers,    \* Manager.mockers, per Manager: mockerKey -> list of Invokers
    heap,       \* the MockerNN structs, by address 1..Len(heap)
    ctxs,       \* context values created with context.WithValue
    last,       \* outcome of the most recent dispatch on the current registry
    regd,       \* history: for each record, where NewMocker registered it
    dead,       \* history: records that a Reset removed from a registry
    wasReset,   \* history: Managers on which Reset has been called
    bindings,   \* history: per context, the Managers BindTo attached on the
                \* way from context.Background(), outermost first
    nops,       \* number of configuration calls so far
    th,         \* per goroutine: the frame of its call of Invoke
    calls,      \* history: per record, the configuration calls made on it
    pure        \* the last call of a helper that has no state, with its result

vars == <<testing, mockers, heap, ctxs, last, regd, dead, wasReset, bindings, nops, th,
          calls, pure>>

NoPanic == [msg |-> "", typ |-> "", method |-> ""]
\* what a call-site adapter hands to its caller; none outside an adapter
NoAdapter == [real |-> FALSE, panic |-> NoPanic, vals |-> <<>>]
NoCall  == [kind |-> "none", mgr |-> NilMgr, ctx |-> 0, recv |-> "", key |-> <<"", "">>,
            arg |-> -1, ret |-> NilRet, ok |-> FALSE, panic |-> NoPanic, trace |-> <<>>,
            adapter |-> NoAdapter]

IdleFrame == [pc |-> "idle", mgr |-> NilMgr, key |-> <<"", "">>, arg |-> -1,
              list |-> <<>>, i |-> 0, defaultHandler |-> 0,
              ret |-> NilRet, ok |-> FALSE, panic |-> NoPanic, trace |-> <<>>,
              dirty |-> FALSE]

EmptyMap == [k \in mockerKey |-> <<>>]

\* ------------------------------------------------------- MockerNN template
\* mutant: every record that went through Handle is in Handle mode, also
\* when the function it was given is nil
Mode_HandleCalled(m) == IF m.fnWhen = NilPred THEN ModeHandle ELSE ModeWhenReturn

\* Invoker.Mode
\* mutant: a record with a return-producer is in When/Return mode
Mode_ReturnWins(m) ==
    IF m.fnReturn # NilFn THEN ModeWhenReturn
    ELSE IF m.fnHandle # NilFn THEN ModeHandle ELSE ModeWhenReturn

Mode(m) == IF m.fnHandle # NilFn THEN ModeHandle ELSE ModeWhenReturn

\* mutant: a record without a predicate matches every call
InvokerWhen_NilMatches(m, params) ==
    IF m.fnWhen = NilPred THEN TRUE ELSE CallWhenFn(m.fnWhen, params)

\* Invoker.When
InvokerWhen(m, params) ==
    IF m.fnWhen = NilPred THEN FALSE ELSE CallWhenFn(m.fnWhen, params)

\* ------------------------------------------------------------- gsmock core
\* mutant: one package-level registry instead of the Manager's own map
getMockers_Global(r, key) == mockers[1][key]

\* Manager.getMockers
getMockers(r, key) == mockers[r][key]

PanicNilFunc  == [msg |-> "invalid memory address or nil pointer dereference",
                  typ |-> "", method |-> ""]
PanicMultiple(key) == [msg |-> "found multiple Handle functions for",
                       typ |-> key[1], method |-> key[2]]

Result(ret, ok, panic, trace) ==
    [ret |-> ret, ok |-> ok, panic |-> panic, trace |-> trace]

\* Invoker.Return: calls m.fnReturn()
InvokerReturn(f, trace) ==
    IF heap[f].fnReturn = NilFn
    THEN Result(NilRet, FALSE, PanicNilFunc, trace)
    ELSE Result(CallReturnFn(heap[f].fnReturn), TRUE, NoPanic,
                Append(trace, <<"Return", f>>))

\* Invoker.Handle: calls m.fnHandle(params...)
InvokerHandle(f, params, trace) ==
    IF heap[f].fnHandle = NilFn
    THEN Result(NilRet, FALSE, PanicNilFunc, trace)
    ELSE Result(CallHandleFn(heap[f].fnHandle, params), TRUE, NoPanic,
                Append(trace, <<"Handle", f>>))

\* mutants of the loop of Invoke:
\*   "lastMatch"    a matching When/Return record does not end the scan
\*   "dropHandler"  the pending handler is forgotten when a later
\*                  When/Return record is scanned
\*   "firstHandler" a second Handle record is skipped instead of reported
\*   "scanOn"       the scan goes on after the first match and returns that
\*                  match's result at its end
\*   "handlerWins"  a pending handler makes the scan skip matching
\*                  When/Return records
RECURSIVE BuggyLoop(_, _, _, _, _, _, _, _)
BuggyLoop(bug, list, i, defaultHandler, matched, key, params, trace) ==
    IF i > Len(list)
    THEN IF matched # 0 THEN InvokerReturn(matched, trace)
         ELSE IF defaultHandler # 0
         THEN InvokerHandle(defaultHandler, params, trace)
         ELSE Result(NilRet, FALSE, NoPanic, trace)
    ELSE LET f == list[i] IN
         IF Mode(heap[f]) = ModeHandle
         THEN IF defaultHandler # 0
              THEN IF bug = "firstHandler"
                   THEN BuggyLoop(bug, list, i + 1, defaultHandler, matched, key, params, trace)
                   ELSE Result(NilRet, FALSE, PanicMultiple(key), trace)
              ELSE BuggyLoop(bug, list, i + 1, f, matched, key, params, trace)
         ELSE LET t2 == IF heap[f].fnWhen = NilPred THEN trace
                        ELSE Append(trace, <<"When", f>>)
                  dh == IF bug = "dropHandler" THEN 0 ELSE defaultHandler IN
              IF heap[f].fnWhen # NilPred /\ CallWhenFn(heap[f].fnWhen, params)
              THEN IF bug = "lastMatch"
                   THEN BuggyLoop(bug, list, i + 1, dh, f, key, params, t2)
                   ELSE IF bug = "scanOn"
                   THEN BuggyLoop(bug, list, i + 1, dh, IF matched = 0 THEN f ELSE matched,
                                  key, params, t2)
                   ELSE IF bug = "handlerWins" /\ defaultHandler # 0
                   THEN BuggyLoop(bug, list, i + 1, dh, matched, key, params, t2)
                   ELSE InvokerReturn(f, t2)
              ELSE BuggyLoop(bug, list, i + 1, dh, matched, key, params, t2)

InvokeLoop_LastMatch(list, i, defaultHandler, key, params, trace) ==
    BuggyLoop("lastMatch", list, i, defaultHandler, 0, key, params, trace)
InvokeLoop_DropHandler(list, i, defaultHandler, key, params, trace) ==
    BuggyLoop("dropHandler", list, i, defaultHandler, 0, key, params, trace)
InvokeLoop_FirstHandler(list, i, defaultHandler, key, params, trace) ==
    BuggyLoop("firstHandler", list, i, defaultHandler, 0, key, params, trace)
InvokeLoop_ScanOn(list, i, defaultHandler, key, params, trace) ==
    BuggyLoop("scanOn", list, i, defaultHandler, 0, key, params, trace)
\* mutant: the Handle records of the list are counted before the scan
InvokeLoop_CountFirst(list, i, defaultHandler, key, params, trace) ==
    IF Cardinality({j \in 1..Len(list) : Mode(heap[list[j]]) = ModeHandle}) >= 2
    THEN Result(NilRet, FALSE, PanicMultiple(key), trace)
    ELSE BuggyLoop("none", list, i, defaultHandler, 0, key, params, trace)
InvokeLoop_HandlerWins(list, i, defaultHandler, key, params, trace) ==
    BuggyLoop("handlerWins", list, i, defaultHandler, 0, key, params, trace)

\* the for loop of Invoke and the code after it; defaultHandler = 0 is nil
RECURSIVE InvokeLoop(_, _, _, _, _, _)
InvokeLoop(list, i, defaultHandler, key, params, trace) ==
    IF i > Len(list)
    THEN IF defaultHandler # 0
         THEN InvokerHandle(defaultHandler, params, trace)
         ELSE Result(NilRet, FALSE, NoPanic, trace)
    ELSE LET f == list[i] IN
         IF Mode(heap[f]) = ModeHandle
         THEN IF defaultHandler # 0
              THEN Result(NilRet, FALSE, PanicMultiple(key), trace)
              ELSE InvokeLoop(list, i + 1, f, key, params, trace)
         ELSE LET t2 == IF heap[f].fnWhen = NilPred THEN trace
                        ELSE Append(trace, <<"When", f>>) IN
              IF InvokerWhen(heap[f], params)
              THEN InvokerReturn(f, t2)
              ELSE InvokeLoop(list, i + 1, defaultHandler, key, params, t2)

\* mutant: the test-mode check is missing
Invoke_NoTestCheck(r, key, params) ==
    IF r = NilMgr THEN Result(NilRet, FALSE, NoPanic, <<>>)
    ELSE BuggyLoop("none", getMockers(r, key), 1, 0, 0, key, params, <<>>)

\* mutant: the nil check on the Manager is missing, r.mockers is read
Invoke_NoNilCheck(r, key, params) ==
    IF ~testing THEN Result(NilRet, FALSE, NoPanic, <<>>)
    ELSE IF r = NilMgr THEN Result(NilRet, FALSE, PanicNilFunc, <<>>)
    ELSE InvokeLoop(getMockers(r, key), 1, 0, key, params, <<>>)

\* Invoke(r, typ, method, params...)
\* mutant: the result of an earlier call of the identity is kept and
\* returned again
Invoke_Cached(r, key, params) ==
    IF r = NilMgr \/ ~testing
    THEN Result(NilRet, FALSE, NoPanic, <<>>)
    ELSE IF pure.fn = "Invoke" /\ pure.key = key /\ pure.out.ok
    THEN pure.out
    ELSE BuggyLoop("none", getMockers(r, key), 1, 0, 0, key, params, <<>>)

Invoke(r, key, params) ==
    IF r = NilMgr \/ ~testing
    THEN Result(NilRet, FALSE, NoPanic, <<>>)
    ELSE InvokeLoop(getMockers(r, key), 1, 0, key, params, <<>>)

\* ctx.Value(&managerKey): the innermost value stored under the key;
\* context 0 is context.Background()
RECURSIVE CtxValue(_)
CtxValue(c) ==
    IF c = 0 THEN [found |-> FALSE, val |-> NilMgr]
    ELSE IF ctxs[c].key = "managerKey" THEN [found |-> TRUE, val |-> ctxs[c].val]
    ELSE CtxValue(ctxs[c].parent)

\* mutant: only the context itself is inspected, not the chain it wraps
getManager_NoChain(c) ==
    IF c # 0 /\ ctxs[c].key = "managerKey" THEN ctxs[c].val ELSE NilMgr

\* mutant: a binding to a Manager that has been Reset is no longer honoured
getManager_UntilReset(c) ==
    IF CtxValue(c).found /\ CtxValue(c).val \notin wasReset THEN CtxValue(c).val ELSE NilMgr

\* getManager
getManager(c) == IF CtxValue(c).found THEN CtxValue(c).val ELSE NilMgr

\* InvokeContext(ctx, typ, method, params...)
InvokeContext(c, key, params) ==
    IF ~testing THEN Result(NilRet, FALSE, NoPanic, <<>>)
    ELSE Invoke(getManager(c), key, params)

\* no helper was called yet
NoPure == [fn |-> "none"]

\* ------------------------------------------------------------------ state
Init ==
    /\ testing = TRUE
    /\ mockers = [r \in Mgrs |-> EmptyMap]
    /\ heap = <<>>
    /\ ctxs = <<>>
    /\ last = NoCall
    /\ regd = <<>>
    /\ dead = {}
    /\ wasReset = {}
    /\ bindings = <<>>
    /\ nops = 0
    /\ th = [t \in Threads |-> IdleFrame]
    /\ calls = <<>>
    /\ pure = NoPure

\* a configuration call: counts against the budget and ends the validity
\* of the recorded dispatch outcome
Idle == last = NoCall

\* a configuration call made by the test between two dispatches
Config ==
    /\ Idle
    /\ nops < MaxOps
    /\ nops' = nops + 1
    /\ last' = NoCall

\* the goroutine that owns Manager r is between two calls, and the calls of
\* Invoke on r that are in flight see a registry that changed under them
Touch(r) ==
    /\ \A t \in Threads : Own(t) = r => th[t].pc = "idle"
    /\ th' = [t \in Threads |->
                IF th[t].pc # "idle" /\ th[t].mgr = r
                THEN [th[t] EXCEPT !.dirty = TRUE] ELSE th[t]]

\* Manager.addMocker
\* mutant: the new record is put in front of the list
addMocker_Prepend(r, key, i) ==
    [mockers EXCEPT ![r][key] = <<i>> \o mockers[r][key]]

addMocker(r, key, i) ==
    [mockers EXCEPT ![r][key] = Append(mockers[r][key], i)]

\* NewMockerNN(r, typ, method): allocates the Mocker and its Invoker and
\* registers the Invoker
NewMockerAs(r, key, recv) ==
    /\ Len(heap) < MaxRecs
    /\ Config
    /\ Touch(r)
    /\ heap' = Append(heap, [fnHandle |-> NilFn, fnWhen |-> NilPred, fnReturn |-> NilFn])
    /\ mockers' = addMocker(r, key, Len(heap) + 1)
    /\ regd' = Append(regd, [mgr |-> r, key |-> key, recv |-> recv])
    /\ UNCHANGED <<calls, pure, testing, ctxs, dead, wasReset, bindings>>

\* MockGet(r): NewMocker called directly by the test
NewMocker(M) == \E r \in M : NewMockerAs(r, <<"Client", "Get">>, "")

\* (c *MockClient) MockQuery()
MockQuery(S) == \E s \in S : NewMockerAs(RecvMgr(s), <<RecvType(s), "Query">>, s)

\* Mocker.Handle(fn); fn may be nil
\* registration-time duplicate detection: a second handler for an identity
\* is refused by taking its record out of the identity's list
Handle_RejectSecond ==
    \E m \in 1..Len(heap), fn \in HandleFns \cup {NilFn} :
        /\ Config
        /\ Touch(regd[m].mgr)
        /\ heap' = [heap EXCEPT ![m].fnHandle = fn]
        /\ mockers' =
              LET l == mockers[regd[m].mgr][regd[m].key]
              IN  IF fn # NilFn /\ \E i \in 1..Len(l) : l[i] # m /\ Mode(heap[l[i]]) = ModeHandle
                  THEN [mockers EXCEPT ![regd[m].mgr][regd[m].key] =
                            SelectSeq(l, LAMBDA x : x # m)]
                  ELSE mockers
        /\ UNCHANGED <<calls, pure, testing, ctxs, regd, dead, wasReset, bindings>>

Handle ==
    \E m \in 1..Len(heap), fn \in HandleFns \cup {NilFn} :
        /\ Config
        /\ Touch(regd[m].mgr)
        /\ heap' = [heap EXCEPT ![m].fnHandle = fn]
        /\ UNCHANGED <<calls, pure, testing, mockers, ctxs, regd, dead, wasReset, bindings>>

\* Mocker.When(fn)
When(P) ==
    \E m \in 1..Len(heap), fn \in P :
        /\ Config
        /\ Touch(regd[m].mgr)
        /\ heap' = [heap EXCEPT ![m].fnWhen = fn]
        /\ UNCHANGED <<calls, pure, testing, mockers, ctxs, regd, dead, wasReset, bindings>>

\* mutant: a Return-family call installs the always-true predicate whatever
\* predicate the record holds
SetReturn_Overwrite(m, fn) ==
    [heap EXCEPT ![m].fnWhen = TruePred, ![m].fnReturn = fn]

\* the body of Mocker.Return(fn)
SetReturn(m, fn) ==
    [heap EXCEPT ![m].fnWhen = IF heap[m].fnWhen = NilPred THEN TruePred ELSE @,
                 ![m].fnReturn = fn]

\* Mocker.Return(fn)
Return ==
    \E m \in 1..Len(heap), fn \in ReturnFns :
        /\ Config
        /\ Touch(regd[m].mgr)
        /\ heap' = SetReturn(m, fn)
        /\ UNCHANGED <<calls, pure, testing, mockers, ctxs, regd, dead, wasReset, bindings>>

\* Mocker.ReturnDefault()
ReturnDefault ==
    \E m \in 1..Len(heap) :
        /\ Config
        /\ Touch(regd[m].mgr)
        /\ heap' = SetReturn(m, ZeroFn)
        /\ UNCHANGED <<calls, pure, testing, mockers, ctxs, regd, dead, wasReset, bindings>>

\* mutant: Reset deletes the entries of one identity only
ResetMap_OneKey(r) == [mockers EXCEPT ![r][<<"Client", "Get">>] = <<>>]

\* mutant: Reset leaves the last record of every list in place
ResetMap_KeepLast(r) ==
    [mockers EXCEPT ![r] = [k \in mockerKey |->
        IF mockers[r][k] = <<>> THEN <<>> ELSE <<mockers[r][k][Len(mockers[r][k])]>>]]

\* Manager.Reset
ResetMap(r) == [mockers EXCEPT ![r] = EmptyMap]

Reset(M) ==
    \E r \in M :
        /\ Config
        /\ Touch(r)
        /\ mockers' = ResetMap(r)
        /\ dead' = dead \cup {m \in 1..Len(heap) :
                                \E k \in mockerKey :
                                    \E i \in 1..Len(mockers[r][k]) :
                                        mockers[r][k][i] = m}
        /\ wasReset' = wasReset \cup {r}
        /\ UNCHANGED <<calls, pure, testing, heap, ctxs, regd, bindings>>

BindingsOf(c) == IF c = 0 THEN <<>> ELSE bindings[c]

\* Manager.BindTo(ctx); the receiver may be a nil *Manager
BindTo(M) ==
    \E r \in M \cup {NilMgr}, c \in 0..Len(ctxs) :
        /\ Len(ctxs) < MaxCtx
        /\ Config
        /\ ctxs' = Append(ctxs, [parent |-> c, key |-> "managerKey", val |-> r])
        /\ bindings' = Append(bindings, Append(BindingsOf(c), r))
        /\ UNCHANGED <<calls, pure, testing, mockers, heap, regd, dead, wasReset, th>>

\* context.WithValue(ctx, otherKey, v): a carrier derived by the application
WithValue ==
    \E c \in 0..Len(ctxs) :
        /\ Len(ctxs) < MaxCtx
        /\ Config
        /\ ctxs' = Append(ctxs, [parent |-> c, key |-> "other", val |-> NilMgr])
        /\ bindings' = Append(bindings, BindingsOf(c))
        /\ UNCHANGED <<calls, pure, testing, mockers, heap, regd, dead, wasReset, th>>

\* a value held in an any: its dynamic type and the value
AnyOf(T, v) == [typ |-> T, val |-> v]
\* the nil interface value, which has no dynamic type
NilAny == AnyOf("nil", "nil")
\* var r R: the zero value of a result slot of type T
Zero(T) == AnyOf(T, "zero")

\* Unbox1..Unbox5 with the type arguments T = <<R1, ..., RN>>: panics unless
\* len(ret) == N; slot k is ret[k-1].(Rk), the zero value when the type
\* assertion fails
\* the log-and-zero variant: a wrong length is logged and every slot keeps
\* its zero value
UnboxN_LogAndZero(T, ret) ==
    [panicked |-> FALSE, want |-> Len(T), got |-> Len(ret),
     vals |-> [k \in 1..Len(T) |->
                 IF Len(ret) = Len(T) /\ ret[k].typ = T[k] THEN ret[k] ELSE Zero(T[k])]]

UnboxN(T, ret) ==
    IF Len(ret) = Len(T)
    THEN [panicked |-> FALSE, want |-> Len(T), got |-> Len(ret),
          vals |-> [k \in 1..Len(T) |-> IF ret[k].typ = T[k] THEN ret[k] ELSE Zero(T[k])]]
    ELSE [panicked |-> TRUE, want |-> Len(T), got |-> Len(ret), vals |-> <<>>]

\* the result types of Get and of Query
RespTypes == <<"*Response", "error">>
\* []any{resp, err} as the Invoker of a (*Response, error) mocker builds it
\* from what the user function returned: a response and a nil error
Box2(ret) == <<AnyOf("*Response", ret), NilAny>>
PanicUnbox(u) == [msg |-> "Warning: expected return values, but got", typ |-> "", method |-> ""]
\* panic("mock error")
PanicMockError == [msg |-> "mock error", typ |-> "", method |-> ""]

\* what the adapter does with a handled call: gsmock.Unbox2[*Response, error](ret)
Unboxed(out) ==
    LET u == UnboxN(RespTypes, Box2(out.ret)) IN
    [real |-> FALSE, panic |-> IF u.panicked THEN PanicUnbox(u) ELSE NoPanic, vals |-> u.vals]

\* (c *Client) Get: a panic of the dispatch passes through, a handled call
\* returns the unboxed results, an unhandled call runs the real logic
ClientGet(out) ==
    IF out.panic # NoPanic THEN [real |-> FALSE, panic |-> out.panic, vals |-> <<>>]
    ELSE IF out.ok THEN Unboxed(out)
    ELSE [real |-> TRUE, panic |-> NoPanic, vals |-> <<AnyOf("*Response", "9:xxx"), NilAny>>]

\* (c *MockClient) Query: as Get, except that an unhandled call panics
MockClientQuery(out) ==
    IF out.panic # NoPanic THEN [real |-> FALSE, panic |-> out.panic, vals |-> <<>>]
    ELSE IF out.ok THEN Unboxed(out)
    ELSE [real |-> FALSE, panic |-> PanicMockError, vals |-> <<>>]

Call(kind, r, c, s, key, a, out) ==
    [kind |-> kind, mgr |-> r, ctx |-> c, recv |-> s, key |-> key, arg |-> a,
     ret |-> out.ret, ok |-> out.ok, panic |-> out.panic, trace |-> out.trace,
     adapter |-> IF kind = "InvokeContext" THEN ClientGet(out)
                 ELSE IF kind = "Query" THEN MockClientQuery(out)
                 ELSE NoAdapter]

\* a test or adapter calls Invoke(r, typ, method, a)
DoInvoke(M, K) ==
    \E r \in M, key \in K, a \in Args :
        /\ Idle
        /\ last' = Call("Invoke", r, 0, "", key, a, Invoke(r, key, a))
        /\ UNCHANGED <<calls, pure, testing, mockers, heap, ctxs, regd, dead, wasReset, bindings, nops, th>>

\* (c *Client) Get(ctx, req) calls InvokeContext(ctx, clientType, "Get", ...)
DoInvokeContext ==
    \E c \in 0..Len(ctxs), a \in Args :
        LET key == <<"Client", "Get">> IN
        /\ Idle
        /\ last' = Call("InvokeContext", NilMgr, c, "", key, a, InvokeContext(c, key, a))
        /\ UNCHANGED <<calls, pure, testing, mockers, heap, ctxs, regd, dead, wasReset, bindings, nops, th>>

\* (c *MockClient) Query(req) calls Invoke(c.r, mockClientType, "Query", req)
Query(S) ==
    \E s \in S, a \in Args :
        /\ Idle
        /\ last' = Call("Query", RecvMgr(s), 0, s, <<RecvType(s), "Query">>, a,
                        Invoke(RecvMgr(s), <<RecvType(s), "Query">>, a))
        /\ UNCHANGED <<calls, pure, testing, mockers, heap, ctxs, regd, dead, wasReset, bindings, nops, th>>

\* the caller has looked at the outcome of its dispatch and goes on
Done ==
    /\ ~Idle
    /\ last' = NoCall
    /\ UNCHANGED <<calls, pure, testing, mockers, heap, ctxs, regd, dead, wasReset, bindings, nops, th>>

\* Invoke(nil, typ, method, a): an adapter whose Manager field was never set
InvokeNil ==
    \E key \in mockerKey, a \in Args :
        /\ Idle
        /\ last' = Call("Invoke", NilMgr, 0, "", key, a, Invoke(NilMgr, key, a))
        /\ UNCHANGED <<calls, pure, testing, mockers, heap, ctxs, regd, dead, wasReset, bindings, nops, th>>

\* two Managers and the contexts they are bound to
NextCtx ==
    \/ NewMocker({1, 2})
    \/ Handle
    \/ Return
    \/ Reset({1, 2})
    \/ BindTo({1, 2})
    \/ WithValue
    \/ DoInvokeContext
    \/ InvokeNil
    \/ Done

SpecCtx == Init /\ [][NextCtx]_vars

\* ----------------------------------------------- Invoke, step by step
DoneFrame(f, out) ==
    [f EXCEPT !.pc = "done", !.ret = out.ret, !.ok = out.ok,
              !.panic = out.panic, !.trace = out.trace]

\* mutant: defaultHandler is a package-level variable shared by all calls
LocalHandler_Shared(t) ==
    IF \E u \in Threads : th[u].pc = "loop" /\ th[u].defaultHandler # 0
    THEN th[CHOOSE u \in Threads : th[u].pc = "loop" /\ th[u].defaultHandler # 0].defaultHandler
    ELSE 0

\* var defaultHandler Invoker: a local of the call
LocalHandler(t) == th[t].defaultHandler

\* a goroutine calls Invoke on the shared Manager or on its own: the nil and
\* test-mode check, and mockers := r.getMockers(typ, method)
GoInvoke(t) ==
    \E r \in {1, Own(t)}, a \in Args :
        LET key == <<"Client", "Get">>
            f == [IdleFrame EXCEPT !.mgr = r, !.key = key, !.arg = a] IN
        /\ th[t].pc = "idle"
        /\ th' = [th EXCEPT ![t] =
                    IF r = NilMgr \/ ~testing
                    THEN DoneFrame(f, Result(NilRet, FALSE, NoPanic, <<>>))
                    ELSE [f EXCEPT !.pc = "loop", !.list = getMockers(r, key), !.i = 1]]
        /\ UNCHANGED <<calls, pure, testing, mockers, heap, ctxs, last, regd, dead, wasReset, bindings, nops>>

\* mutant: the scan reads the list from the Manager at every step
ScanList_Refetch(t) == getMockers(th[t].mgr, th[t].key)

\* for _, f := range mockers: the slice the call fetched, a local of the call
ScanList(t) == th[t].list

\* one iteration of the for loop of Invoke
GoLoop(t) ==
    /\ th[t].pc = "loop"
    /\ th[t].i <= Len(ScanList(t))
    /\ LET fr == th[t]
           f == ScanList(t)[fr.i]
           t2 == IF heap[f].fnWhen = NilPred THEN fr.trace
                 ELSE Append(fr.trace, <<"When", f>>) IN
       th' = [th EXCEPT ![t] =
                IF Mode(heap[f]) = ModeHandle
                THEN IF LocalHandler(t) # 0
                     THEN DoneFrame(fr, Result(NilRet, FALSE, PanicMultiple(fr.key), fr.trace))
                     ELSE [fr EXCEPT !.defaultHandler = f, !.i = fr.i + 1]
                ELSE IF InvokerWhen(heap[f], fr.arg)
                     THEN DoneFrame(fr, InvokerReturn(f, t2))
                     ELSE [fr EXCEPT !.i = fr.i + 1, !.trace = t2]]
    /\ UNCHANGED <<calls, pure, testing, mockers, heap, ctxs, last, regd, dead, wasReset, bindings, nops>>

\* the code of Invoke after the loop
GoAfterLoop(t) ==
    /\ th[t].pc = "loop"
    /\ th[t].i > Len(ScanList(t))
    /\ th' = [th EXCEPT ![t] =
                IF LocalHandler(t) # 0
                THEN DoneFrame(th[t], InvokerHandle(LocalHandler(t), th[t].arg, th[t].trace))
                ELSE DoneFrame(th[t], Result(NilRet, FALSE, NoPanic, th[t].trace))]
    /\ UNCHANGED <<calls, pure, testing, mockers, heap, ctxs, last, regd, dead, wasReset, bindings, nops>>

\* the caller has its results and goes on
GoReturn(t) ==
    /\ th[t].pc = "done"
    /\ th' = [th EXCEPT ![t] = IdleFrame]
    /\ UNCHANGED <<calls, pure, testing, mockers, heap, ctxs, last, regd, dead, wasReset, bindings, nops>>

\* goroutines dispatching on a shared Manager and on Managers of their own
NextConc ==
    \/ (nops < MaxConcOps /\ NewMocker(Mgrs))
    \/ (nops < MaxConcOps /\ Handle)
    \/ (nops < MaxConcOps /\ When({EqPred(v) : v \in Args}))
    \/ (nops < MaxConcOps /\ Return)
    \/ \E t \in Threads : GoInvoke(t)
    \/ \E t \in Threads : GoLoop(t)
    \/ \E t \in Threads : GoAfterLoop(t)
    \/ \E t \in Threads : GoReturn(t)

SpecConc == Init /\ [][NextConc]_vars

\* two instances of the interface mock that share the test's Manager
NextRecv ==
    \/ MockQuery(Receivers)
    \/ Handle
    \/ Return
    \/ Query(Receivers)
    \/ Done

SpecRecv == Init /\ [][NextRecv]_vars

\* the body of Mocker.When(fn); fn may be nil
SetWhen(m, fn) == [heap EXCEPT ![m].fnWhen = fn]

\* the closure ReturnValue builds around its arguments
ValueFn == "rv"

CallsOf(m) == IF m \in DOMAIN calls THEN calls[m] ELSE <<>>
\* the call op(fn) on record m is added to the record's history
Logged(m, op, fn) ==
    calls' = [k \in DOMAIN calls \cup {m} |->
                IF k = m THEN Append(CallsOf(m), <<op, fn>>) ELSE calls[k]]

\* Mocker.When(fn) of a test that keeps the handle of the record
RecWhen ==
    \E m \in 1..Len(heap), fn \in WhenFns \cup {NilPred} :
        /\ Config
        /\ Touch(regd[m].mgr)
        /\ heap' = SetWhen(m, fn)
        /\ Logged(m, "When", fn)
        /\ UNCHANGED <<pure, testing, mockers, ctxs, regd, dead, wasReset, bindings>>

\* a call of the Return family with the producer it installs
RecReturnFamily(op, fns) ==
    \E m \in 1..Len(heap), fn \in fns :
        /\ Config
        /\ Touch(regd[m].mgr)
        /\ heap' = SetReturn(m, fn)
        /\ Logged(m, op, fn)
        /\ UNCHANGED <<pure, testing, mockers, ctxs, regd, dead, wasReset, bindings>>

\* Mocker.Return(fn)
RecReturn == RecReturnFamily("Return", ReturnFns)
\* Mocker.ReturnValue(v...)
RecReturnValue == RecReturnFamily("ReturnValue", {ValueFn})
\* Mocker.ReturnDefault()
RecReturnDefault == RecReturnFamily("ReturnDefault", {ZeroFn})

\* the configuration calls on the records of one identity, and its dispatch
NextRec ==
    \/ NewMocker({1})
    \/ RecWhen
    \/ RecReturn
    \/ RecReturnValue
    \/ RecReturnDefault
    \/ DoInvoke({1}, {<<"Client", "Get">>})
    \/ Done

SpecRec == Init /\ [][NextRec]_vars

\* the two call-site adapters of one test: Client.Get through a bound
\* context and MockClient.Query
NextAdapt ==
    \/ NewMocker({1})
    \/ MockQuery({"s1"})
    \/ Handle
    \/ When(WhenFns)
    \/ Return
    \/ BindTo({1})
    \/ DoInvokeContext
    \/ Query({"s1"})
    \/ Done

SpecAdapt == Init /\ [][NextAdapt]_vars

\* one test, one Manager, no contexts
Next ==
    \/ NewMocker({1})
    \/ MockQuery({"s1"})
    \/ Handle
    \/ When(WhenFns)
    \/ Return
    \/ ReturnDefault
    \/ Reset({1})
    \/ DoInvoke({1}, {<<"Client", "Get">>})
    \/ Query({"s1"})
    \/ Done

Spec == Init /\ [][Next]_vars

TypeOK ==
    /\ testing \in BOOLEAN
    /\ Len(heap) <= MaxRecs
    /\ Len(regd) = Len(heap)
    /\ nops <= MaxOps

\* ---------------------------------------------------- vocabulary of claims
\* the records of the identity the last dispatch was about, in list order
Dispatched == last.kind # "none" /\ last.mgr # NilMgr
LastList   == mockers[last.mgr][last.key]
LastIdx    == 1..Len(LastList)
LastRec(i) == heap[LastList[i]]

\* a Handle record: a handler function is installed
IsHandleRec(m) == m.fnHandle # NilFn
\* a When/Return record: no handler, a predicate and a return-producer
IsWhenReturnRec(m) == m.fnHandle = NilFn /\ m.fnWhen # NilPred /\ m.fnReturn # NilFn
\* a record left half-way: When(p) was called and Return never was
IsHalfRec(m) == m.fnHandle = NilFn /\ m.fnWhen # NilPred /\ m.fnReturn = NilFn
\* the record's predicate holds of argument a
PredTrue(m, a) == m.fnWhen = TruePred \/ m.fnWhen = EqPred(a)

HandleIdx == {i \in LastIdx : IsHandleRec(LastRec(i))}
WhenReturnIdx == {i \in LastIdx : IsWhenReturnRec(LastRec(i))}
MatchIdx == {i \in WhenReturnIdx : PredTrue(LastRec(i), last.arg)}
\* records without a handler whose predicate holds, complete or not
OpenMatchIdx == {i \in LastIdx : ~IsHandleRec(LastRec(i)) /\ PredTrue(LastRec(i), last.arg)}
Least(S) == CHOOSE i \in S : \A j \in S : i <= j
Events(op) == {j \in 1..Len(last.trace) : last.trace[j][1] = op}
Ran(op) == {last.trace[j][2] : j \in Events(op)}

\* C1: first match wins. When the dispatched identity's list holds at least
\* two When/Return records, at most one Handle record and no half-configured
\* record, and at least two of the predicates hold of the arguments, Invoke
\* returns handled=true with the result of the earliest record whose
\* predicate holds, and only that record's return-producer runs (once).
C1_FirstMatchWins ==
    (/\ Dispatched
     /\ Cardinality(WhenReturnIdx) >= 2
     /\ Cardinality(HandleIdx) <= 1
     /\ \A i \in LastIdx : ~IsHalfRec(LastRec(i))
     /\ Cardinality(MatchIdx) >= 2)
    => /\ last.ok
       /\ last.panic = NoPanic
       /\ last.ret = [by |-> LastRec(Least(MatchIdx)).fnReturn, arg |-> -1]
       /\ Ran("Return") = {LastList[Least(MatchIdx)]}
       /\ Cardinality(Events("Return")) = 1
       /\ Ran("Handle") = {}

\* two different producers match, a Handle record sits in front of them
C1_Witness ==
    /\ Dispatched
    /\ Cardinality(MatchIdx) >= 2
    /\ HandleIdx = {1}
    /\ \E i, j \in MatchIdx : LastRec(i).fnReturn # LastRec(j).fnReturn
    /\ last.ok

\* C2: unhandled passthrough. With no record registered for the identity, or
\* with only records that have no handler and whose predicate is absent or
\* false for the arguments, Invoke returns (nil, false).
C2_UnhandledPassthrough ==
    (/\ Dispatched
     /\ HandleIdx = {}
     /\ OpenMatchIdx = {})
    => /\ ~last.ok
       /\ last.ret = NilRet
       /\ last.panic = NoPanic
       /\ Ran("Return") = {} /\ Ran("Handle") = {}

\* a complete When/Return record is registered and its predicate is false
C2_Witness ==
    /\ Dispatched
    /\ WhenReturnIdx # {}
    /\ HandleIdx = {} /\ OpenMatchIdx = {}
    /\ ~last.ok

\* C3: handler fallback. With exactly one Handle record in the list and no
\* record in When/Return mode whose predicate holds of the arguments, Invoke
\* runs that handler exactly once with the call's arguments and returns its
\* results with handled=true, wherever the Handle record sits.
C3_HandlerFallback ==
    (/\ Dispatched
     /\ Cardinality(HandleIdx) = 1
     /\ OpenMatchIdx = {})
    => /\ last.ok
       /\ last.panic = NoPanic
       /\ last.ret = [by |-> LastRec(Least(HandleIdx)).fnHandle, arg |-> last.arg]
       /\ Ran("Handle") = {LastList[Least(HandleIdx)]}
       /\ Cardinality(Events("Handle")) = 1
       /\ Ran("Return") = {}

\* the Handle record is neither first nor last and a complete, non-matching
\* When/Return record was scanned
C3_Witness ==
    /\ Dispatched
    /\ HandleIdx = {2} /\ Len(LastList) = 3
    /\ WhenReturnIdx # {} /\ OpenMatchIdx = {}
    /\ last.ok /\ Ran("Handle") # {}

SecondHandleIdx == Least(HandleIdx \ {Least(HandleIdx)})

RegisteredSinceReset(r, key) ==
    {m \in 1..Len(regd) : regd[m].mgr = r /\ regd[m].key = key /\ m \notin dead}

\* C5: Reset clears all. After Reset of a Manager, a dispatch on an identity
\* for which no record was registered since is unhandled and runs nothing,
\* and no dispatch ever runs or evaluates a record that a Reset removed.
C5_ResetClearsAll ==
    /\ (Dispatched /\ last.mgr \in wasReset
            /\ RegisteredSinceReset(last.mgr, last.key) = {})
       => (~last.ok /\ last.ret = NilRet /\ last.panic = NoPanic /\ last.trace = <<>>)
    /\ Dispatched =>
          (Ran("When") \cup Ran("Return") \cup Ran("Handle")) \cap dead = {}

\* a record that would handle the call was removed by Reset; another
\* identity was registered again after the Reset and this one was not
C5_Witness ==
    /\ Dispatched /\ last.mgr \in wasReset
    /\ RegisteredSinceReset(last.mgr, last.key) = {}
    /\ \E m \in dead : regd[m].key = last.key /\ regd[m].mgr = last.mgr
                       /\ (IsHandleRec(heap[m])
                           \/ (IsWhenReturnRec(heap[m]) /\ PredTrue(heap[m], last.arg)))
    /\ \E k \in mockerKey : RegisteredSinceReset(last.mgr, k) # {}
    /\ ~last.ok

\* the records registered through receiver instance s
ViaRecv(s) == {m \in 1..Len(regd) : regd[m].recv = s}

\* C8: receiver isolation. A call on instance A of the interface
\* mock evaluates and runs only records registered through A, and one
\* Handle record per instance never raises the duplicate-Handle panic.
C8_ReceiverIsolation ==
    last.kind = "Query" =>
        /\ (Ran("When") \cup Ran("Return") \cup Ran("Handle")) \subseteq ViaRecv(last.recv)
        /\ (\A s \in Receivers :
               Cardinality({m \in ViaRecv(s) : IsHandleRec(heap[m]) /\ m \notin dead}) <= 1)
           => last.panic = NoPanic

\* the Manager of the last BindTo on the chain of c
Innermost(c) ==
    IF BindingsOf(c) = <<>> THEN NilMgr ELSE BindingsOf(c)[Len(BindingsOf(c))]

\* C6: an absent Manager is never an error. Invoke with a nil Manager, and
\* InvokeContext through a context on whose chain BindTo was never called or
\* was last called on a nil Manager, return (nil, false) without a panic.
C6_AbsentManager ==
    (\/ last.kind = "Invoke" /\ last.mgr = NilMgr
     \/ last.kind = "InvokeContext" /\ Innermost(last.ctx) = NilMgr)
    => (~last.ok /\ last.ret = NilRet /\ last.panic = NoPanic /\ last.trace = <<>>)

\* a nil Manager was bound over a Manager whose record would handle the call
C6_Witness ==
    /\ last.kind = "InvokeContext"
    /\ Len(BindingsOf(last.ctx)) >= 2
    /\ Innermost(last.ctx) = NilMgr
    /\ \E i \in 1..Len(BindingsOf(last.ctx)) :
          /\ BindingsOf(last.ctx)[i] # NilMgr
          /\ Invoke(BindingsOf(last.ctx)[i], last.key, last.arg).ok
    /\ ~last.ok

Outcome(c) == [ret |-> c.ret, ok |-> c.ok, panic |-> c.panic, trace |-> c.trace]

\* C7 (as stated): InvokeContext through m.BindTo(c), or through any context
\* derived from it, returns what Invoke(m, ...) returns.
C7_Original ==
    last.kind = "InvokeContext" =>
        \A i \in 1..Len(BindingsOf(last.ctx)) :
            BindingsOf(last.ctx)[i] # NilMgr =>
                Outcome(last) = Invoke(BindingsOf(last.ctx)[i], last.key, last.arg)

\* C7 (amended): InvokeContext through m.BindTo(c), or through a context
\* derived from it on which BindTo was not called again, returns what
\* Invoke(m, ...) returns (the innermost binding decides), and it evaluates
\* and runs only records registered in m.
C7_ScopedBinding ==
    (last.kind = "InvokeContext" /\ BindingsOf(last.ctx) # <<>>) =>
        /\ Outcome(last) = Invoke(Innermost(last.ctx), last.key, last.arg)
        /\ \A m \in Ran("When") \cup Ran("Return") \cup Ran("Handle") :
              regd[m].mgr = Innermost(last.ctx) /\ m \notin dead

\* a context derived from A.BindTo(c) with another key; both Managers hold a
\* record that handles the call and the dispatch ran A's
C7_Witness ==
    /\ last.kind = "InvokeContext"
    /\ last.ctx # 0 /\ ctxs[last.ctx].key = "other"
    /\ Innermost(last.ctx) # NilMgr
    /\ \A r \in {1, 2} : Invoke(r, last.key, last.arg).ok
    /\ Invoke(1, last.key, last.arg) # Invoke(2, last.key, last.arg)
    /\ last.ok

FrameOutcome(f) == [ret |-> f.ret, ok |-> f.ok, panic |-> f.panic, trace |-> f.trace]
FrameRan(f) == {f.trace[j][2] : j \in 1..Len(f.trace)}

\* C9: Manager isolation under concurrency. A goroutine that dispatches on
\* the Manager it created itself gets, under every interleaving with the
\* other goroutines' registrations and dispatches, what a sequential Invoke
\* on its own Manager returns, and only records registered in its own
\* Manager are evaluated or run.
C9_ManagerIsolation ==
    \A t \in Threads :
        (th[t].pc = "done" /\ th[t].mgr = Own(t)) =>
            /\ FrameOutcome(th[t]) = Invoke(Own(t), th[t].key, th[t].arg)
            /\ \A m \in FrameRan(th[t]) : regd[m].mgr = Own(t)

\* both goroutines hold the result of a dispatch on their own Manager, and
\* the results differ
C9_Witness ==
    /\ \A t \in Threads : th[t].pc = "done" /\ th[t].mgr = Own(t) /\ th[t].ok
    /\ th["g1"].ret # th["g2"].ret

\* C10: freeze after setup. A call of Invoke during which nothing was
\* registered or configured on its Manager returns, whatever other calls of
\* Invoke run concurrently, what a sequential Invoke with the same identity
\* and arguments returns, and it has evaluated the predicates in the
\* registration order of their records.
C10_FreezeAfterSetup ==
    \A t \in Threads :
        (th[t].pc = "done" /\ ~th[t].dirty) =>
            /\ FrameOutcome(th[t]) = Invoke(th[t].mgr, th[t].key, th[t].arg)
            /\ \A j, k \in 1..Len(th[t].trace) :
                  (j < k /\ th[t].trace[j][1] = "When" /\ th[t].trace[k][1] = "When")
                      => th[t].trace[j][2] < th[t].trace[k][2]

\* one call on the shared Manager has scanned past a Handle record and a
\* When/Return record while the other has finished its scan of the same list
C10_Witness ==
    /\ th["g1"].pc = "done" /\ th["g1"].mgr = 1 /\ ~th["g1"].dirty /\ th["g1"].ok
    /\ th["g2"].pc = "loop" /\ th["g2"].mgr = 1 /\ ~th["g2"].dirty
    /\ th["g2"].i = 3 /\ th["g2"].defaultHandler # 0
    /\ th["g2"].list = th["g1"].list

\* the adapter raised a panic of its own that names the identity
OwnPanicNamesIdentity ==
    /\ last.adapter.panic # NoPanic
    /\ last.adapter.panic # last.panic
    /\ last.adapter.panic.typ = last.key[1]
    /\ last.adapter.panic.method = last.key[2]
\* the adapter returned the results of the mock
ReturnedMocked ==
    /\ last.adapter.panic = NoPanic
    /\ ~last.adapter.real
    /\ last.adapter.vals[1] = AnyOf("*Response", last.ret)

\* C11: adapter contract. The function adapter Client.Get runs its real
\* logic exactly when the dispatch returned handled=false and returns the
\* mocked results otherwise; the interface adapter MockClient.Query returns
\* the mocked results of a handled call and raises, exactly when the dispatch
\* returned handled=false, a panic whose message names the receiver type and
\* the method.
C11_AdapterContract ==
    /\ (last.kind = "InvokeContext" /\ last.panic = NoPanic) =>
          /\ last.adapter.real <=> ~last.ok
          /\ last.ok => ReturnedMocked
    /\ (last.kind = "Query" /\ last.panic = NoPanic) =>
          /\ last.ok => ReturnedMocked
          /\ ~last.ok => OwnPanicNamesIdentity

\* the Manager an adapter call was dispatched on
AdapterMgr == IF last.kind = "InvokeContext" THEN getManager(last.ctx) ELSE last.mgr
\* every record of the dispatched identity is as Handle(nil) leaves a new
\* record: no handler, no predicate, no return-producer
OnlyNilHandlers ==
    /\ last.kind \in {"InvokeContext", "Query"}
    /\ AdapterMgr # NilMgr
    /\ mockers[AdapterMgr][last.key] # <<>>
    /\ \A i \in 1..Len(mockers[AdapterMgr][last.key]) :
          heap[mockers[AdapterMgr][last.key][i]]
              = [fnHandle |-> NilFn, fnWhen |-> NilPred, fnReturn |-> NilFn]

\* C12: nil handler degrades. A dispatch on an identity whose only records
\* were given Handle(nil) returns handled=false without a panic and without
\* calling any user function; the function adapter then returns the result
\* of its real logic and the interface adapter raises the panic of its own
\* for an unhandled call.
C12_NilHandlerDegrades ==
    OnlyNilHandlers =>
        /\ ~last.ok /\ last.ret = NilRet /\ last.panic = NoPanic /\ last.trace = <<>>
        /\ last.kind = "InvokeContext" =>
              (last.adapter.real /\ last.adapter.panic = NoPanic
                 /\ last.adapter.vals[1] = AnyOf("*Response", "9:xxx"))
        /\ last.kind = "Query" =>
              (last.adapter.panic = PanicMockError /\ ~last.adapter.real)

\* MockQuery().Handle(h) and then Handle(nil) on the one record, then Query
C12_Witness ==
    /\ OnlyNilHandlers
    /\ last.kind = "Query" /\ Len(heap) = 1 /\ ctxs = <<>> /\ nops = 3
    /\ last.adapter.panic = PanicMockError

\* Handle(nil) on the one record of Client.Get, dispatched through a context
\* bound to the Manager: the real logic ran
C12_WitnessGet ==
    /\ OnlyNilHandlers
    /\ last.kind = "InvokeContext" /\ Len(heap) = 1 /\ Len(ctxs) = 1 /\ nops = 3
    /\ last.adapter.real

ReturnFamily == {"Return", "ReturnValue", "ReturnDefault"}
WhenCalls(h) == {j \in 1..Len(h) : h[j][1] = "When"}
ReturnCalls(h) == {j \in 1..Len(h) : h[j][1] \in ReturnFamily}
Greatest(S) == CHOOSE i \in S : \A j \in S : j <= i
\* the argument of the most recent When call of history h, nil without one
LastWhenArg(h) == IF WhenCalls(h) = {} THEN NilPred ELSE h[Greatest(WhenCalls(h))][2]
\* a Return-family call was made after the most recent When call
ReturnAfterWhen(h) ==
    \E j \in ReturnCalls(h) : \A k \in WhenCalls(h) : k < j

\* C13 (as stated): after a sequence of When and Return-family calls with at
\* least one Return-family call, the record's predicate is the argument of
\* the most recent When call, or always-true if When was never called.
C13_Original ==
    \A m \in DOMAIN calls :
        ReturnCalls(calls[m]) # {} =>
            heap[m].fnWhen = IF WhenCalls(calls[m]) = {} THEN TruePred
                             ELSE LastWhenArg(calls[m])

\* C13 (amended): after a sequence of When and Return-family calls with at
\* least one Return-family call, the record's predicate is the argument of
\* the most recent When call if that argument is not nil; if When was never
\* called or its most recent argument is nil, the predicate is always-true
\* once a Return-family call has followed, and nil otherwise. A record
\* configured with Return-family calls alone handles every call with the
\* producer of the most recent of them.
C13_EffectivePredicate ==
    /\ \A m \in DOMAIN calls :
          ReturnCalls(calls[m]) # {} =>
              heap[m].fnWhen =
                  IF LastWhenArg(calls[m]) # NilPred THEN LastWhenArg(calls[m])
                  ELSE IF ReturnAfterWhen(calls[m]) THEN TruePred
                  ELSE NilPred
    /\ (Dispatched /\ Len(LastList) = 1 /\ CallsOf(LastList[1]) # <<>>
            /\ WhenCalls(CallsOf(LastList[1])) = {})
       => (last.ok /\ last.panic = NoPanic
             /\ last.ret = CallReturnFn(
                   CallsOf(LastList[1])[Greatest(ReturnCalls(CallsOf(LastList[1])))][2]))

\* When(p), Return and ReturnDefault on one record: p is still installed and
\* a call that p rejects was dispatched
C13_Witness ==
    /\ Dispatched /\ Len(LastList) = 1 /\ ~last.ok
    /\ LET h == CallsOf(LastList[1]) IN
          /\ Len(h) = 3
          /\ h[1][1] = "When" /\ h[1][2] # NilPred
          /\ h[2][1] = "Return" /\ h[3][1] = "ReturnDefault"
          /\ heap[LastList[1]].fnWhen = h[1][2]

\* one Handle record and at least one When/Return record share the list,
\* and every record is completely configured
MixedModes ==
    /\ Dispatched
    /\ Cardinality(HandleIdx) = 1
    /\ WhenReturnIdx # {}
    /\ \A i \in LastIdx : ~IsHalfRec(LastRec(i))

\* C14 (as stated): when a Handle record and When/Return records share an
\* identity's list, the dispatch runs the handler and returns its results,
\* whether or not a predicate holds of the arguments.
C14_Original ==
    MixedModes =>
        /\ last.ok
        /\ Ran("Handle") = {LastList[Least(HandleIdx)]}
        /\ last.ret = CallHandleFn(LastRec(Least(HandleIdx)).fnHandle, last.arg)

\* C14 (amended): when one Handle record and When/Return records share an
\* identity's list, the earliest When/Return record whose predicate holds of
\* the arguments wins and the handler does not run; the handler runs only
\* when no predicate holds. Both hold wherever the Handle record was
\* registered relative to the When/Return records.
C14_HandlerIsFallback ==
    MixedModes =>
        /\ last.ok /\ last.panic = NoPanic
        /\ MatchIdx # {} =>
              /\ last.ret = CallReturnFn(LastRec(Least(MatchIdx)).fnReturn)
              /\ Ran("Return") = {LastList[Least(MatchIdx)]}
              /\ Ran("Handle") = {}
        /\ MatchIdx = {} =>
              /\ last.ret = CallHandleFn(LastRec(Least(HandleIdx)).fnHandle, last.arg)
              /\ Ran("Handle") = {LastList[Least(HandleIdx)]}
              /\ Ran("Return") = {}

\* the Handle record was registered first and a When/Return record behind
\* it, whose predicate depends on the argument, produced the result
C14_Witness ==
    /\ MixedModes
    /\ HandleIdx = {1}
    /\ MatchIdx # {} /\ LastRec(Least(MatchIdx)).fnWhen = EqPred(last.arg)
    /\ Ran("Handle") = {} /\ Ran("Return") # {}

\* positions of the Handle-mode records in the list of identity key of
\* Manager r
HandleRecs(r, key) ==
    {i \in 1..Len(mockers[r][key]) : Mode(heap[mockers[r][key][i]]) = ModeHandle}
Listed(m) ==
    \E i \in 1..Len(mockers[regd[m].mgr][regd[m].key]) :
        mockers[regd[m].mgr][regd[m].key][i] = m
MultiplePanic(c) == c.panic.msg = "found multiple Handle functions for"

\* C15: duplicate detection happens at dispatch time only. The step that
\* makes a listed record the second Handle-mode record of its identity does
\* not fail and leaves the list as it was, with both Handle records in it;
\* the "found multiple Handle functions" panic is raised only by an Invoke of
\* an identity that holds two Handle-mode records, and names that identity;
\* an Invoke of another identity of the same Manager, which holds fewer than
\* two, raises no such panic and returns what its own list determines.
C15_DispatchTimeOnly ==
    [][ /\ \A m \in 1..Len(heap) :
              (/\ Listed(m)
               /\ Mode(heap[m]) = ModeWhenReturn /\ Mode(heap'[m]) = ModeHandle
               /\ HandleRecs(regd[m].mgr, regd[m].key) # {})
              => /\ mockers' = mockers
                 /\ last' = NoCall
                 /\ Cardinality(HandleRecs(regd[m].mgr, regd[m].key)') >= 2
        /\ (last = NoCall /\ last'.kind # "none") =>
              /\ MultiplePanic(last') =>
                    /\ Cardinality(HandleRecs(last'.mgr, last'.key)) >= 2
                    /\ last'.panic.typ = last'.key[1]
                    /\ last'.panic.method = last'.key[2]
              /\ Cardinality(HandleRecs(last'.mgr, last'.key)) < 2 =>
                    /\ ~MultiplePanic(last')
                    /\ LET out == InvokeLoop(mockers[last'.mgr][last'.key], 1, 0,
                                             last'.key, last'.arg, <<>>)
                       IN  /\ last'.ret = out.ret /\ last'.ok = out.ok
                           /\ last'.panic = out.panic
      ]_vars

\* Client.Get holds two Handle-mode records, both still listed, and an Invoke
\* of MockClient.Query on the same Manager was handled by its own handler
C15_Witness ==
    /\ Cardinality(HandleRecs(1, <<"Client", "Get">>)) >= 2
    /\ Dispatched /\ last.mgr = 1 /\ last.key = <<"MockClient", "Query">>
    /\ last.ok /\ last.panic = NoPanic
    /\ Ran("Handle") # {}

\* the duplicate on Client.Get surfaced in an Invoke of Client.Get
C15_WitnessPanic ==
    /\ Dispatched /\ last.key = <<"Client", "Get">>
    /\ MultiplePanic(last)
    /\ Cardinality(HandleRecs(1, <<"Client", "Get">>)) >= 2

\* ---------------------------------------------------------------------
\* Unbox1..Unbox5 applied to result lists
\* ---------------------------------------------------------------------
\* Unbox1 .. Unbox5
MaxUnbox == 5
\* longest result list handed to an Unbox function
MaxRet == 5
SlotTypes == {"int", "string"}
\* the elements of a result list: an int, a string, or a nil interface value
RetVals == {AnyOf("int", 1), AnyOf("string", "a"), NilAny}
RetLists == UNION {[1..n -> RetVals] : n \in 0..MaxRet}

engine == <<testing, mockers, heap, ctxs, last, regd, dead, wasReset, bindings, nops, th, calls>>

\* r1, ..., rN := gsmock.UnboxN[R1, ..., RN](ret)
DoUnbox ==
    /\ pure = NoPure
    /\ \E N \in 1..MaxUnbox :
          \E T \in [1..N -> SlotTypes], ret \in RetLists :
              pure' = [fn |-> "Unbox", T |-> T, ret |-> ret, out |-> UnboxN(T, ret)]
    /\ UNCHANGED engine

\* the caller is done with the values
Forget ==
    /\ pure # NoPure
    /\ pure' = NoPure
    /\ UNCHANGED engine

NextUnbox == DoUnbox \/ Forget
SpecUnbox == Init /\ [][NextUnbox]_vars

Unboxing == pure.fn = "Unbox"

\* C16: UnboxN, for N = 1..5, panics without returning values when the
\* result list does not have exactly N elements; on a list of N elements
\* slot k is the k-th element when that element has the type of slot k and
\* the zero value of that type otherwise, whatever the other slots hold.
C16_UnboxExtraction ==
    Unboxing =>
        LET N == Len(pure.T) IN
        /\ N \in 1..5
        /\ Len(pure.ret) # N =>
              /\ pure.out.panicked
              /\ pure.out.vals = <<>>
              /\ pure.out.want = N /\ pure.out.got = Len(pure.ret)
        /\ Len(pure.ret) = N =>
              /\ ~pure.out.panicked
              /\ Len(pure.out.vals) = N
              /\ \A k \in 1..N :
                    pure.out.vals[k] = IF pure.ret[k].typ = pure.T[k]
                                       THEN pure.ret[k]
                                       ELSE [typ |-> pure.T[k], val |-> "zero"]

\* Unbox5 on a list of five elements, one slot of which takes its element
\* and another of which falls back to the zero value
C16_Witness ==
    /\ Unboxing
    /\ Len(pure.T) = 5 /\ Len(pure.ret) = 5
    /\ \E j, k \in 1..5 :
          /\ pure.ret[j].typ = pure.T[j] /\ pure.out.vals[j] = pure.ret[j]
          /\ pure.ret[k].typ # pure.T[k] /\ pure.out.vals[k].val = "zero"

\* a list of the wrong length made Unbox2 panic
C16_WitnessPanic ==
    /\ Unboxing
    /\ Len(pure.T) = 2 /\ Len(pure.ret) = 3
    /\ pure.out.panicked

\* ---------------------------------------------------------------------
\* record handles kept by the test across Manager.Reset
\* ---------------------------------------------------------------------
\* the records in the lists of Manager r
ListedIn(r) ==
    {m \in 1..Len(heap) :
        \E k \in mockerKey : \E i \in 1..Len(mockers[r][k]) : mockers[r][k][i] = m}

\* Mocker.Handle(fn) of a test that keeps the handle of the record
RecHandle ==
    \E m \in 1..Len(heap), fn \in HandleFns :
        /\ Config
        /\ Touch(regd[m].mgr)
        /\ heap' = [heap EXCEPT ![m].fnHandle = fn]
        /\ Logged(m, "Handle", fn)
        /\ UNCHANGED <<pure, testing, mockers, ctxs, regd, dead, wasReset, bindings>>

\* Manager.Reset, noted in the history of every record it drops
RecReset ==
    /\ Config
    /\ Touch(1)
    /\ mockers' = ResetMap(1)
    /\ dead' = dead \cup ListedIn(1)
    /\ wasReset' = wasReset \cup {1}
    /\ calls' = [k \in DOMAIN calls \cup ListedIn(1) |->
                    IF k \in ListedIn(1) THEN Append(CallsOf(k), <<"Reset", NilFn>>)
                    ELSE calls[k]]
    /\ UNCHANGED <<pure, testing, heap, ctxs, regd, bindings>>

NextDangle ==
    \/ NewMocker({1})
    \/ RecHandle
    \/ RecWhen
    \/ RecReturn
    \/ RecReset
    \/ DoInvoke({1}, {<<"Client", "Get">>})
    \/ Done

SpecDangle == Init /\ [][NextDangle]_vars

\* record m was configured with op after the Reset that dropped it
ConfiguredAfterReset(m, op) ==
    \E i, j \in 1..Len(CallsOf(m)) :
        /\ i < j
        /\ CallsOf(m)[i][1] = "Reset"
        /\ CallsOf(m)[j][1] = op

\* C17: a record dropped by Manager.Reset is in no list of the registry; it
\* can still be configured, and the step that configures it raises no error,
\* leaves the registry as it is, and changes the result of no dispatch, for
\* any identity and argument.
C17_DanglingRecords ==
    [][ /\ \A m \in dead' : ~Listed(m)'
        /\ \A m \in dead :
              heap'[m] # heap[m] =>
                  /\ last' = NoCall
                  /\ mockers' = mockers
                  /\ \A key \in mockerKey, a \in Args :
                        Invoke(1, key, a)' = Invoke(1, key, a)
      ]_vars

\* a record dropped by Reset was given a return-producer afterwards, its
\* predicate holds of the argument, and the dispatch of its identity did not
\* run it
C17_Witness ==
    \E m \in dead :
        /\ ConfiguredAfterReset(m, "Return")
        /\ IsWhenReturnRec(heap[m]) /\ PredTrue(heap[m], last.arg)
        /\ Dispatched /\ last.mgr = regd[m].mgr /\ last.key = regd[m].key
        /\ m \notin Ran("Return")
        /\ ~last.ok

\* ---------------------------------------------------------------------
\* carriers kept by the test across Manager.Reset
\* ---------------------------------------------------------------------
\* Manager.Reset, noted in the history of every record it drops together
\* with the number of carriers built before it
CtxReset(M) ==
    \E r \in M :
        /\ Config
        /\ Touch(r)
        /\ mockers' = ResetMap(r)
        /\ dead' = dead \cup ListedIn(r)
        /\ wasReset' = wasReset \cup {r}
        /\ calls' = [k \in DOMAIN calls \cup ListedIn(r) |->
                        IF k \in ListedIn(r)
                        THEN Append(CallsOf(k), <<"Reset", Len(ctxs)>>)
                        ELSE calls[k]]
        /\ UNCHANGED <<pure, testing, heap, ctxs, regd, bindings>>

NextBind ==
    \/ NewMocker({1})
    \/ Handle
    \/ CtxReset({1})
    \/ BindTo({1, 2})
    \/ DoInvokeContext
    \/ Done

SpecBind == Init /\ [][NextBind]_vars

\* C18: a carrier produced by BindTo resolves to the Manager it was bound to
\* after every step, Reset and registration included; what InvokeContext
\* finds through the carrier is what that Manager holds at the time of the
\* call, so a record registered after the bind and after a Reset is found,
\* and no record dropped by a Reset is run.
C18_BindingSurvivesReset ==
    [][ \A c \in 1..Len(ctxs) :
          /\ getManager(c)' = Innermost(c)
          /\ Innermost(c) # NilMgr =>
                \A a \in Args :
                    LET key == <<"Client", "Get">>
                        out == InvokeContext(c, key, a)' IN
                    /\ out = Invoke(Innermost(c), key, a)'
                    /\ mockers'[Innermost(c)][key] = <<>> => ~out.ok
                    /\ \A j \in 1..Len(out.trace) : out.trace[j][2] \notin dead'
      ]_vars

\* a carrier bound to a Manager before the Manager was Reset: a record the
\* Reset dropped has a handler, and the dispatch through the carrier ran the
\* handler of a record registered after the Reset
C18_Witness ==
    /\ last.kind = "InvokeContext" /\ last.ctx # 0
    /\ ctxs[last.ctx].key = "managerKey"
    /\ last.ok
    /\ \E m0 \in dead, m \in Ran("Handle") :
          /\ regd[m0].mgr = Innermost(last.ctx) /\ regd[m].mgr = Innermost(last.ctx)
          /\ IsHandleRec(heap[m0])
          /\ m \notin dead
          /\ \E i \in 1..Len(CallsOf(m0)) :
                CallsOf(m0)[i][1] = "Reset" /\ CallsOf(m0)[i][2] >= last.ctx

\* ---------------------------------------------------------------------
\* goroutines registering on a shared Manager without a lock
\* ---------------------------------------------------------------------
\* the goroutine of record m has the step op at time nops in its history
At(m, op) ==
    LET S == {j \in 1..Len(CallsOf(m)) : CallsOf(m)[j][1] = op} IN
    IF S = {} THEN -1 ELSE CallsOf(m)[CHOOSE j \in S : TRUE][2]

\* mutant: the store appends to the list as it is at the time of the store
StoreList_Reread(t) == Append(mockers[th[t].mgr][th[t].key], th[t].i)

\* append(r.mockers[k], i) on the list the goroutine has read
StoreList(t) == Append(th[t].list, th[t].i)

\* NewMocker up to the read of r.mockers[k] in addMocker: the record is
\* built and the list of the identity is read
GoNewMocker(t) ==
    LET key == <<"Client", "Get">>
        m == Len(heap) + 1 IN
    /\ th[t].pc = "idle"
    /\ Len(heap) < MaxRecs
    /\ nops < MaxOps
    /\ nops' = nops + 1
    /\ heap' = Append(heap, [fnHandle |-> NilFn, fnWhen |-> NilPred, fnReturn |-> NilFn])
    /\ regd' = Append(regd, [mgr |-> 1, key |-> key, recv |-> ""])
    /\ th' = [th EXCEPT ![t] = [IdleFrame EXCEPT !.pc = "append", !.mgr = 1, !.key = key,
                                                 !.list = getMockers(1, key), !.i = m]]
    /\ Logged(m, "load", nops)
    /\ UNCHANGED <<pure, testing, mockers, ctxs, last, dead, wasReset, bindings>>

\* the write r.mockers[k] = ... of addMocker
GoStore(t) ==
    /\ th[t].pc = "append"
    /\ nops' = nops + 1
    /\ mockers' = [mockers EXCEPT ![th[t].mgr][th[t].key] = StoreList(t)]
    /\ th' = [th EXCEPT ![t] = IdleFrame]
    /\ Logged(th[t].i, "store", nops)
    /\ UNCHANGED <<pure, testing, heap, ctxs, last, regd, dead, wasReset, bindings>>

\* the runtime detects two goroutines inside addMocker on the same map and
\* ends the process: "fatal error: concurrent map writes"
GoFatal ==
    /\ \A t \in Threads : th[t].pc = "append"
    /\ th' = [t \in Threads |-> [th[t] EXCEPT !.pc = "fatal"]]
    /\ UNCHANGED <<calls, pure, testing, mockers, heap, ctxs, last, regd, dead, wasReset,
                   bindings, nops>>

Running == \A t \in Threads : th[t].pc # "fatal"

NextReg ==
    \/ \E t \in Threads : GoNewMocker(t)
    \/ \E t \in Threads : GoStore(t)
    \/ GoFatal
    \/ (Running /\ Return)
    \/ (Running /\ DoInvoke({1}, {<<"Client", "Get">>}))
    \/ Done

SpecReg == Init /\ [][NextReg]_vars

Stored(m) == At(m, "store") >= 0
InList(m) == \E i \in 1..Len(mockers[1][<<"Client", "Get">>]) :
                mockers[1][<<"Client", "Get">>][i] = m
\* the registration of m2 read the list before m was stored and stored its
\* own list afterwards
Overwrote(m2, m) ==
    /\ Stored(m) /\ Stored(m2)
    /\ At(m2, "load") < At(m, "store")
    /\ At(m, "store") < At(m2, "store")

\* no store followed the store of m
LastStored(m) == Stored(m) /\ \A k \in 1..Len(heap) : At(k, "store") <= At(m, "store")

\* C19: registration on a Manager is a read of the identity's list followed
\* by a write, with nothing between them that keeps other goroutines out. A
\* record whose registration has completed is missing from the list only if
\* another registration on the Manager read the list before the record was
\* stored and wrote its own list afterwards, and it is missing whenever that
\* other registration was the last to write; registrations that do not
\* overlap lose nothing.
C19_LostRegistration ==
    \A m \in 1..Len(heap) :
        Stored(m) =>
            /\ ~InList(m) => \E m2 \in 1..Len(heap) : m2 # m /\ Overwrote(m2, m)
            /\ \A m2 \in 1..Len(heap) :
                  (m2 # m /\ Overwrote(m2, m) /\ LastStored(m2)) => ~InList(m)

\* two registrations ran concurrently and both completed; the list holds
\* one of the two records only
C19_Witness ==
    /\ \A t \in Threads : th[t].pc = "idle"
    /\ \E m, m2 \in 1..Len(heap) :
          /\ Stored(m) /\ Stored(m2)
          /\ At(m, "load") < At(m2, "load") /\ At(m2, "load") < At(m, "store")
          /\ ~InList(m) /\ InList(m2)
          /\ Len(mockers[1][<<"Client", "Get">>]) = 1

\* ---------------------------------------------------------------------
\* the generator's interface filter (-i)
\* ---------------------------------------------------------------------
\* longest filter, in comma-separated items
MaxItems == 3
\* the interfaces declared in the scanned package
Interfaces == {"Repository", "RepositoryV2", "Service"}
\* an item of the filter between two commas: empty, a name, or '!' and a
\* name (possibly an empty one)
Plain(n) == [neg |-> FALSE, name |-> n]
Bang(n)  == [neg |-> TRUE, name |-> n]
Items == {Plain("")} \cup {Plain(n) : n \in Interfaces}
                     \cup {Bang(n) : n \in Interfaces \cup {""}}
Filters == UNION {[1..n -> Items] : n \in 0..MaxItems}

emptyScan == [IncludeInterfaces |-> {}, ExcludeInterfaces |-> {}]

RECURSIVE parseFrom(_, _, _)
\* the loop of scanContext.parse over the items from position i on
parseFrom(ctx, f, i) ==
    IF i > Len(f) THEN ctx
    ELSE IF ~f[i].neg /\ f[i].name = "" THEN parseFrom(ctx, f, i + 1)
    ELSE IF f[i].neg
         THEN parseFrom([ctx EXCEPT !.ExcludeInterfaces = @ \cup {f[i].name}], f, i + 1)
         ELSE parseFrom([ctx EXCEPT !.IncludeInterfaces = @ \cup {f[i].name}], f, i + 1)

\* scanContext.parse
parse(f) == IF Len(f) = 0 THEN emptyScan ELSE parseFrom(emptyScan, f, 1)

\* scanContext.mock
mock(ctx, name) ==
    IF ctx.IncludeInterfaces # {}
    THEN name \in ctx.IncludeInterfaces
    ELSE name \notin ctx.ExcludeInterfaces

\* run: the filter is parsed and every declared interface is put to it
Generate ==
    /\ pure = NoPure
    /\ \E f \in Filters :
          pure' = [fn |-> "generate", filter |-> f,
                   mocked |-> {n \in Interfaces : mock(parse(f), n)}]
    /\ UNCHANGED engine

NextGen == Generate \/ Forget
SpecGen == Init /\ [][NextGen]_vars

Generated == pure.fn = "generate"
PlainNames == {pure.filter[i].name : i \in {j \in 1..Len(pure.filter) :
                    ~pure.filter[j].neg /\ pure.filter[j].name # ""}}
BangNames  == {pure.filter[i].name : i \in {j \in 1..Len(pure.filter) : pure.filter[j].neg}}

\* C20: a filter with plain names only mocks exactly the named interfaces; a
\* filter with '!' names only mocks every interface except those; a filter
\* with both mocks every interface except the '!' ones, the plainly named
\* ones included; an empty filter mocks every interface; empty items between
\* commas change nothing.
C20_InterfaceFilter ==
    Generated =>
        /\ (PlainNames # {} /\ BangNames = {}) => pure.mocked = Interfaces \cap PlainNames
        /\ (PlainNames = {} /\ BangNames # {}) => pure.mocked = Interfaces \ BangNames
        /\ (PlainNames # {} /\ BangNames # {}) =>
              pure.mocked = (Interfaces \ BangNames) \cup (Interfaces \cap PlainNames)
        /\ (PlainNames = {} /\ BangNames = {}) => pure.mocked = Interfaces
        /\ pure.mocked = {n \in Interfaces :
                            mock(parse(SelectSeq(pure.filter, LAMBDA x : x # Plain(""))), n)}

\* the records whose predicate the dispatch evaluated, in the order of the
\* evaluations
WhenOrder ==
    LET ws == SelectSeq(last.trace, LAMBDA e : e[1] = "When") IN
    [k \in 1..Len(ws) |-> ws[k][2]]
\* the records of the list up to position i that have no handler and have a
\* predicate, in registration order
PredicatesUpTo(i) ==
    SelectSeq(SubSeq(LastList, 1, i),
              LAMBDA m : ~IsHandleRec(heap[m]) /\ heap[m].fnWhen # NilPred)
\* the scan reaches position i: fewer than two Handle records precede it
Reaches(i) == Cardinality({h \in HandleIdx : h < i}) <= 1

\* C21: when the scan reaches a When/Return record whose predicate is true
\* of the arguments, Invoke returns that record's result at once: the
\* predicates evaluated are those of the When/Return records up to and
\* including it, each once and in registration order, no predicate of a
\* later record is evaluated, and a Handle record seen earlier is not run.
C21_MatchEndsScan ==
    (/\ Dispatched
     /\ OpenMatchIdx # {}
     /\ Reaches(Least(OpenMatchIdx))
     /\ IsWhenReturnRec(LastRec(Least(OpenMatchIdx))))
    => /\ last.ok /\ last.panic = NoPanic
       /\ last.ret = CallReturnFn(LastRec(Least(OpenMatchIdx)).fnReturn)
       /\ WhenOrder = PredicatesUpTo(Least(OpenMatchIdx))
       /\ Ran("Return") = {LastList[Least(OpenMatchIdx)]}
       /\ Ran("Handle") = {}
       /\ last.trace[Len(last.trace)] = <<"Return", LastList[Least(OpenMatchIdx)]>>

\* the match is in the middle of the list: a Handle record precedes it, a
\* record with a predicate follows it, and the call returned without
\* running the handler
C21_Witness ==
    /\ Dispatched
    /\ OpenMatchIdx # {}
    /\ IsWhenReturnRec(LastRec(Least(OpenMatchIdx)))
    /\ \E h \in HandleIdx : h < Least(OpenMatchIdx)
    /\ \E j \in LastIdx : /\ j > Least(OpenMatchIdx)
                          /\ ~IsHandleRec(LastRec(j)) /\ LastRec(j).fnWhen # NilPred
    /\ last.ok /\ Ran("Handle") = {}

IsBothRec(m) == m.fnHandle # NilFn /\ m.fnWhen # NilPred /\ m.fnReturn # NilFn
BothIdx == {i \in LastIdx : IsBothRec(LastRec(i))}
\* op was called on record m before op2 was
CalledBefore(m, op, op2) ==
    \E i, j \in 1..Len(CallsOf(m)) :
        i < j /\ CallsOf(m)[i][1] = op /\ CallsOf(m)[j][1] = op2

\* C23: a record on which both a handler and a When/Return pair are set is
\* in Handle mode, in whatever order the setters were called: dispatch
\* evaluates neither its predicate nor its return-producer; as the only
\* Handle record of a list in which no other record matches, its handler
\* produces the result; as the second Handle record reached by the scan it
\* raises the duplicate panic.
C23_HandleModeWins ==
    Dispatched =>
        \A i \in BothIdx :
            /\ LastList[i] \notin Ran("When") \cup Ran("Return")
            /\ (HandleIdx = {i} /\ OpenMatchIdx = {}) =>
                  /\ last.ok
                  /\ Ran("Handle") = {LastList[i]}
                  /\ last.ret = CallHandleFn(LastRec(i).fnHandle, last.arg)
            /\ (/\ Cardinality(HandleIdx) >= 2
                /\ i = SecondHandleIdx
                /\ \A j \in OpenMatchIdx : j > i) => MultiplePanic(last)

\* Handle was called on the record first, When and Return afterwards, and
\* the dispatch ran the handler
C23_Witness ==
    /\ Dispatched /\ last.ok
    /\ \E i \in BothIdx :
          /\ CalledBefore(LastList[i], "Handle", "When")
          /\ CalledBefore(LastList[i], "Handle", "Return")
          /\ Ran("Handle") = {LastList[i]}

\* When and Return were called first and Handle last
C23_WitnessHandleLast ==
    /\ Dispatched /\ last.ok
    /\ \E i \in BothIdx :
          /\ CalledBefore(LastList[i], "Return", "Handle")
          /\ Ran("Handle") = {LastList[i]}

\* such a record was the second Handle record of the list
C23_WitnessDuplicate ==
    /\ Dispatched /\ MultiplePanic(last)
    /\ \E i \in BothIdx : Cardinality(HandleIdx) >= 2 /\ i = SecondHandleIdx

\* ---------------------------------------------------------------------
\* the mode of a record as successive dispatches see it
\* ---------------------------------------------------------------------
RECURSIVE VisitedFrom(_, _, _, _)
\* the position of the last record whose Mode() the scan calls
VisitedFrom(list, i, defaultHandler, params) ==
    IF i > Len(list) THEN Len(list)
    ELSE IF Mode(heap[list[i]]) = ModeHandle
         THEN IF defaultHandler # 0 THEN i
              ELSE VisitedFrom(list, i + 1, list[i], params)
         ELSE IF InvokerWhen(heap[list[i]], params) THEN i
              ELSE VisitedFrom(list, i + 1, defaultHandler, params)

\* Invoke on Client.Get of Manager 1; the mode each visited record reported
\* is added to the record's history
ObsInvoke ==
    \E a \in Args :
        LET key == <<"Client", "Get">>
            list == getMockers(1, key)
            seen == {list[j] : j \in 1..VisitedFrom(list, 1, 0, a)} IN
        /\ Idle
        /\ nops < MaxOps
        /\ nops' = nops + 1
        /\ last' = Call("Invoke", 1, 0, "", key, a, Invoke(1, key, a))
        /\ calls' = [k \in DOMAIN calls \cup seen |->
                        IF k \in seen
                        THEN Append(CallsOf(k), <<"Mode", Mode(heap[k])>>)
                        ELSE calls[k]]
        /\ UNCHANGED <<pure, testing, mockers, heap, ctxs, regd, dead, wasReset, bindings, th>>

NextMode ==
    \/ NewMocker({1})
    \/ RecHandle
    \/ RecWhen
    \/ RecReturn
    \/ ObsInvoke
    \/ Done

SpecMode == Init /\ [][NextMode]_vars

\* the modes dispatches have seen record m in, in the order of the dispatches
ModesSeen(m) ==
    LET ms == SelectSeq(CallsOf(m), LAMBDA e : e[1] = "Mode") IN
    [k \in 1..Len(ms) |-> ms[k][2]]

\* C24: a record never changes variant: whatever Handle, When and Return
\* calls are made on its handle, before or after dispatches have run, every
\* dispatch that visits a registered record sees it in the mode the first
\* dispatch saw.
C24_ModeNeverChanges ==
    \A m \in 1..Len(heap) :
        \A k \in 1..Len(ModesSeen(m)) : ModesSeen(m)[k] = ModesSeen(m)[1]

\* a record as NewMocker registers it: nothing is set
IsBlankRec(m) == m.fnHandle = NilFn /\ m.fnWhen = NilPred /\ m.fnReturn = NilFn
\* the record the scan of goroutine t is about to visit
AtRecord(t) == heap[th[t].list[th[t].i]]
Scanning(t) == th[t].pc = "loop" /\ th[t].i <= Len(th[t].list)

\* C25: no partially configured record is visible to dispatch: the scan of
\* a dispatch that runs while, or between the steps in which, the test
\* builds a record never comes to a record that is registered and not yet
\* configured, nor to one whose predicate is installed and whose
\* return-producer is missing.
C25_NoPartialRecord ==
    \A t \in Threads :
        Scanning(t) => ~IsBlankRec(AtRecord(t)) /\ ~IsHalfRec(AtRecord(t))

\* ---------------------------------------------------------------------
\* successive dispatches on one registry
\* ---------------------------------------------------------------------
\* Invoke on Client.Get of Manager 1, remembered by the test together with
\* the registry it ran on
MemoInvoke ==
    \E a \in Args :
        LET key == <<"Client", "Get">> IN
        /\ Idle
        /\ pure = NoPure
        /\ last' = Call("Invoke", 1, 0, "", key, a, Invoke(1, key, a))
        /\ pure' = [fn |-> "Invoke", mockers |-> mockers, heap |-> heap, key |-> key,
                    arg |-> a, out |-> Invoke(1, key, a)]
        /\ UNCHANGED <<calls, testing, mockers, heap, ctxs, regd, dead, wasReset, bindings,
                       nops, th>>

NextMemo ==
    \/ NewMocker({1})
    \/ Handle
    \/ When({EqPred(v) : v \in Args})
    \/ Return
    \/ MemoInvoke
    \/ DoInvoke({1}, {<<"Client", "Get">>})
    \/ Done

SpecMemo == Init /\ [][NextMemo]_vars

Remembered == pure.fn = "Invoke"
\* the When/Return records whose return-producer ran in outcome out
Winners(out) == {out.trace[j][2] : j \in {k \in 1..Len(out.trace) : out.trace[k][1] = "Return"}}

\* C26: dispatch is read-only and uncached. A dispatch step leaves the lists
\* of all identities and all records as they are; a dispatch on the registry
\* and arguments of a remembered earlier dispatch returns the remembered
\* result, whatever dispatches ran in between; and a record that won the
\* remembered call does not win a call for whose arguments its predicate is
\* false.
C26_ReadOnlyUncached ==
    [][ (last = NoCall /\ last'.kind = "Invoke") =>
          /\ mockers' = mockers /\ heap' = heap
          /\ (/\ Remembered
              /\ pure.mockers = mockers /\ pure.heap = heap
              /\ pure.key = last'.key /\ pure.arg = last'.arg)
             => Outcome(last') = pure.out
          /\ Remembered =>
                \A w \in Winners(pure.out) :
                    ~InvokerWhen(heap[w], last'.arg) => w \notin Winners(last')
      ]_vars

\* the registry is the one of the remembered call, the remembered call was
\* won by a When/Return record, and the present call, with another argument,
\* was not won by it
C26_Witness ==
    /\ Remembered /\ Dispatched
    /\ pure.mockers = mockers /\ pure.heap = heap
    /\ pure.arg # last.arg
    /\ pure.out.ok /\ Winners(pure.out) # {}
    /\ Winners(pure.out) \cap Winners(last) = {}
    /\ Outcome(last) # pure.out

\* list l holds exactly the records of S, in the order of their creation
InCreationOrder(l, S) ==
    /\ {l[i] : i \in 1..Len(l)} = S
    /\ \A i \in 1..Len(l) - 1 : l[i] < l[i + 1]

\* C27: a registration adds exactly one record, the new one, at the end of
\* the list of its identity and leaves the list of every other identity as
\* it is; after every step the list of each identity of each Manager is, in
\* order, the records registered for it since the Manager's last Reset, or
\* since NewManager.
C27_RegistrationAppends ==
    [][ /\ Len(heap') = Len(heap) + 1 =>
              LET m == Len(heap')
                  r == regd'[m].mgr
                  key == regd'[m].key IN
              /\ mockers'[r][key] = Append(mockers[r][key], m)
              /\ \A r2 \in Mgrs, k2 \in mockerKey :
                    (r2 # r \/ k2 # key) => mockers'[r2][k2] = mockers[r2][k2]
        /\ \A r \in Mgrs, key \in mockerKey :
              InCreationOrder(mockers[r][key], RegisteredSinceReset(r, key))'
      ]_vars

\* after a Reset that dropped a record, one record was registered for
\* Client.Get and one for MockClient.Query
C27_Witness ==
    /\ 1 \in wasReset /\ dead # {}
    /\ Len(mockers[1][<<"Client", "Get">>]) >= 1
    /\ Len(mockers[1][<<"MockClient", "Query">>]) >= 1
    /\ Len(heap) = 3

\* C28: dispatch fails only on duplicate handlers: whatever NewMocker, When,
\* Return, Handle and Reset calls built the registry, records with a
\* predicate and no return-producer and blank records included, a dispatch
\* either returns normally or panics with "found multiple Handle functions".
C28_OnlyDuplicatePanic ==
    Dispatched => (last.panic = NoPanic \/ MultiplePanic(last))

\* ---------------------------------------------------------------------
\* the same code in a test binary and in a production binary
\* ---------------------------------------------------------------------
\* testing.Testing() is fixed when the binary is built
InitBinary ==
    /\ testing \in BOOLEAN
    /\ mockers = [r \in Mgrs |-> EmptyMap]
    /\ heap = <<>>
    /\ ctxs = <<>>
    /\ last = NoCall
    /\ regd = <<>>
    /\ dead = {}
    /\ wasReset = {}
    /\ bindings = <<>>
    /\ nops = 0
    /\ th = [t \in Threads |-> IdleFrame]
    /\ calls = <<>>
    /\ pure = NoPure

NextBinary ==
    \/ NewMocker({1})
    \/ Handle
    \/ When(WhenFns)
    \/ Return
    \/ BindTo({1})
    \/ DoInvoke({1}, {<<"Client", "Get">>})
    \/ DoInvokeContext
    \/ Done

SpecBinary == InitBinary /\ [][NextBinary]_vars

\* C29: outside test mode mocks are inert: Invoke and InvokeContext return
\* (nil, false) whatever the Manager holds, evaluate no predicate, run no
\* handler and no return-producer, and raise no panic.
C29_InertOutsideTests ==
    (last.kind \in {"Invoke", "InvokeContext"} /\ ~testing) =>
        /\ last.ret = NilRet /\ ~last.ok
        /\ last.panic = NoPanic
        /\ last.trace = <<>>

\* outside test mode, a call through a carrier bound to a Manager whose
\* list for the identity holds two Handle records
C29_Witness ==
    /\ ~testing
    /\ last.kind = "InvokeContext" /\ getManager(last.ctx) = 1
    /\ Cardinality(HandleRecs(1, last.key)) >= 2
    /\ ~last.ok

\* outside test mode, a direct call on a Manager with a record that matches
C29_WitnessInvoke ==
    /\ ~testing
    /\ last.kind = "Invoke" /\ last.mgr = 1
    /\ \E i \in 1..Len(mockers[1][last.key]) :
          IsWhenReturnRec(heap[mockers[1][last.key][i]])
            /\ PredTrue(heap[mockers[1][last.key][i]], last.arg)
    /\ ~last.ok

\* ---------------------------------------------------------------------
\* Manager.Reset while dispatches are in flight
\* ---------------------------------------------------------------------
AllIdle == \A t \in Threads : th[t].pc = "idle"

\* the test sets the registry up while no goroutine is dispatching; Reset is
\* called at any time
NextInFlight ==
    \/ (AllIdle /\ NewMocker({1}))
    \/ (AllIdle /\ Handle)
    \/ (AllIdle /\ When({EqPred(v) : v \in Args}))
    \/ (AllIdle /\ Return)
    \/ Reset({1})
    \/ \E t \in Threads : GoInvoke(t)
    \/ \E t \in Threads : GoLoop(t)
    \/ \E t \in Threads : GoAfterLoop(t)
    \/ \E t \in Threads : GoReturn(t)

SpecInFlight == Init /\ [][NextInFlight]_vars

\* the records registered for the identity of frame f, dropped or not
RegisteredFor(f) ==
    {m \in 1..Len(regd) : regd[m].mgr = f.mgr /\ regd[m].key = f.key}

\* C30: Reset does not disturb a dispatch in flight. The list a call has
\* fetched stays with it: records registered for its identity, in
\* registration order, and the current list of the identity as long as no
\* Reset came since the fetch; the call's result is that of the scan over
\* the list it fetched; and a call that fetches its list after a Reset,
\* with nothing registered since, fetches the empty list.
C30_ResetKeepsScan ==
    \A t \in Threads :
        th[t].pc # "idle" /\ th[t].mgr # NilMgr =>
            /\ \E S \in SUBSET RegisteredFor(th[t]) : InCreationOrder(th[t].list, S)
            /\ ~th[t].dirty => th[t].list = mockers[th[t].mgr][th[t].key]
            /\ th[t].pc = "done" =>
                  FrameOutcome(th[t])
                      = InvokeLoop(th[t].list, 1, 0, th[t].key, th[t].arg, <<>>)
            /\ (/\ ~th[t].dirty /\ th[t].mgr \in wasReset
                /\ RegisteredSinceReset(th[t].mgr, th[t].key) = {}) => th[t].list = <<>>

\* a call on the shared Manager was handled from the list it fetched before
\* the Reset, while the Manager's list is empty and another call, which
\* fetched after the Reset, scans the empty list
C30_Witness ==
    \E t, u \in Threads :
        /\ th[t].pc = "done" /\ th[t].mgr = 1 /\ th[t].dirty
        /\ th[t].ok /\ th[t].list # <<>>
        /\ mockers[1][th[t].key] = <<>>
        /\ th[u].pc = "loop" /\ th[u].mgr = 1 /\ ~th[u].dirty
        /\ th[u].list = <<>>
====
